---- MODULE Spec2Model ----
(***************************************************************************)
(* Model of scripts/ai_doc_checker.py: the FastAPI change detector (diff   *)
(* scan, function locator, snippet extractor), the Gemini documentation    *)
(* generator with its retry loop, the Gmail notifier and main().           *)
(*                                                                         *)
(* Python strings are TLA+ strings; TLC evaluates Len, SubSeq and \o on    *)
(* them, so the regular expressions and the str methods of the source are  *)
(* modelled character by character. Python indices are 0-based, the model  *)
(* is 1-based: Python index i is position i + 1 here, so that the          *)
(* line_number the source computes as i + 1 is the position itself.        *)
(***************************************************************************)
EXTENDS Integers, Sequences, FiniteSets, TLC

VARIABLES
    pc,             \* position of the running function
    diff_content,   \* detect_api_changes: the diff text passed in
    file_path,      \* detect_api_changes: the file path passed in
    file_text,      \* content of repo_path/file_path on disk
    lines,          \* detect_api_changes: diff_content.split('\n')
    i,              \* detect_api_changes: position of the loop in lines
    changes,        \* detect_api_changes: the result list
    origin,         \* history: origin[k] is the decorator position of changes[k]
    reads,          \* history: reads[k] is what reading the file yielded for changes[k]
    target_name,    \* _get_full_function_code: the function name passed in
    snippet,        \* _get_full_function_code: the text returned
    env,            \* the environment variables of the process
    exit_code,      \* main: the value returned
    changed_files,  \* main: the changed Python files
    fi,             \* main: position of the loop over changed_files
    all_api_changes,\* main: the records of all files
    api_docs,       \* main: the API reference drafts
    changelog_docs, \* main: the changelog drafts
    ci,             \* main: position of the loop over all_api_changes
    attempt,        \* generate_api_documentation: the loop variable
    outcomes,       \* history: what each attempt of the current call met
    slept,          \* history: the time.sleep() calls of the current call
    api_for,        \* history: api_for[k] is the record api_docs[k] was made for
    log_for,        \* history: log_for[k] is the record changelog_docs[k] was made for
    failed,         \* history: the kinds of failure met so far
    calls,          \* history: how often git, the detector, the model and SMTP were used
    sent,           \* history: the arguments and message of the delivery attempts
    notify_log      \* what the notifier printed

detectVars == <<diff_content, file_path, file_text, lines, i, changes, origin, reads>>
snippetVars == <<target_name, snippet>>
mainVars == <<env, exit_code, changed_files, fi, all_api_changes, api_docs, changelog_docs,
              ci, attempt, outcomes, slept, api_for, log_for, failed, calls, sent, notify_log>>
vars == <<pc, detectVars, snippetVars, mainVars>>

----------------------------------------------------------------------------
(* Bounds of the model.                                                    *)

\* longest diff built freely from DiffLines
MaxLen == 3
\* most filler lines between a decorator and the function definition
MaxFill == 11
\* longest file built freely from SnippetLines
MaxFileLen == 3
\* most body lines between a definition and the line after its body
MaxBody == 25

----------------------------------------------------------------------------
(* Python str and list primitives.                                         *)

Min(S) == CHOOSE x \in S : \A y \in S : x <= y

Ch(s, k) == SubSeq(s, k, k)

From(s, k) == SubSeq(s, k, Len(s))

\* str.strip() and \s: the ASCII whitespace characters
IsSpace(c) == c \in {" ", "\t", "\n", "\r", "\f"}

LowerChars == "abcdefghijklmnopqrstuvwxyz"
UpperChars == "ABCDEFGHIJKLMNOPQRSTUVWXYZ"
DigitChars == "0123456789"

CharsOf(s) == {Ch(s, k) : k \in 1..Len(s)}

LowerSet == CharsOf(LowerChars)
UpperSet == CharsOf(UpperChars)

\* \w
WordSet == LowerSet \cup UpperSet \cup CharsOf(DigitChars) \cup {"_"}

IsWord(c) == c \in WordSet

UpperMap ==
    [c \in LowerSet |-> Ch(UpperChars, CHOOSE k \in 1..Len(LowerChars) : Ch(LowerChars, k) = c)]

LowerMap ==
    [c \in UpperSet |-> Ch(LowerChars, CHOOSE k \in 1..Len(UpperChars) : Ch(UpperChars, k) = c)]

UpperChar(c) == IF c \in LowerSet THEN UpperMap[c] ELSE c

LowerChar(c) == IF c \in UpperSet THEN LowerMap[c] ELSE c

\* str.upper()
RECURSIVE Upper(_)
Upper(s) == IF s = "" THEN "" ELSE UpperChar(Head(s)) \o Upper(Tail(s))

\* str.lower()
RECURSIVE Lower(_)
Lower(s) == IF s = "" THEN "" ELSE LowerChar(Head(s)) \o Lower(Tail(s))

\* str.replace(a, b) for single characters a and b
RECURSIVE Replace(_, _, _)
Replace(s, a, b) ==
    IF s = "" THEN ""
    ELSE (IF Head(s) = a THEN b ELSE Head(s)) \o Replace(Tail(s), a, b)

\* str.title(): a letter is upper-cased after a character that is no letter
\* and lower-cased after a letter
RECURSIVE TitleFrom(_, _)
TitleFrom(s, after_letter) ==
    IF s = "" THEN ""
    ELSE LET c == Head(s)
             letter == c \in LowerSet \cup UpperSet
         IN  (IF ~letter THEN c ELSE IF after_letter THEN LowerChar(c) ELSE UpperChar(c))
             \o TitleFrom(Tail(s), letter)

Title(s) == TitleFrom(s, FALSE)

\* str.endswith(p)
EndsWith(s, p) == Len(p) <= Len(s) /\ SubSeq(s, Len(s) - Len(p) + 1, Len(s)) = p

\* the text at position k of s is p, letter case ignored (re.IGNORECASE)
AtIgnoreCase(s, k, p) ==
    /\ k >= 1
    /\ k + Len(p) - 1 <= Len(s)
    /\ \A j \in 1..Len(p) : LowerChar(Ch(s, k + j - 1)) = LowerChar(Ch(p, j))

\* str.strip()
Strip(s) ==
    LET keep == {k \in 1..Len(s) : ~IsSpace(Ch(s, k))}
    IN  IF keep = {} THEN ""
        ELSE SubSeq(s, Min(keep), CHOOSE k \in keep : \A j \in keep : j <= k)

\* str.lstrip(chars)
LStrip(s, chars) ==
    LET keep == {k \in 1..Len(s) : Ch(s, k) \notin chars}
    IN  IF keep = {} THEN "" ELSE From(s, Min(keep))

\* str.startswith(p)
StartsWith(s, p) == Len(p) <= Len(s) /\ SubSeq(s, 1, Len(p)) = p

\* the text at position k of s is p
At(s, k, p) ==
    /\ k >= 1
    /\ k + Len(p) - 1 <= Len(s)
    /\ \A j \in 1..Len(p) : Ch(s, k + j - 1) = Ch(p, j)

\* p in s
Contains(s, p) == \E k \in 1..(Len(s) + 1) : At(s, k, p)

\* str.split('\n')
RECURSIVE Split(_)
Split(s) ==
    LET nl == {k \in 1..Len(s) : Ch(s, k) = "\n"}
    IN  IF nl = {} THEN <<s>>
        ELSE <<SubSeq(s, 1, Min(nl) - 1)>> \o Split(From(s, Min(nl) + 1))

\* '\n'.join(ls)
RECURSIVE Join(_)
Join(ls) ==
    IF ls = <<>> THEN ""
    ELSE IF Len(ls) = 1 THEN ls[1]
    ELSE ls[1] \o "\n" \o Join(Tail(ls))

\* the value of a regular-expression search that found nothing, and of a
\* function that returns None
None == [none |-> TRUE]

----------------------------------------------------------------------------
(* FastAPIChangeDetector: the regular expressions.                         *)

\* FASTAPI_PATTERNS: r'@app\.(get|post|put|delete|patch)\s*\(' and
\* r'@router\.(get|post|put|delete|patch)\s*\(', each given by the literal
\* text before its group; the group's alternatives are HTTP_METHODS.
FASTAPI_PATTERNS == <<"@app.", "@router.">>

HTTP_METHODS == <<"get", "post", "put", "delete", "patch">>

\* position of the '(' that ends a match of \s*\( started at position b, or 0
OpenParenAfter(s, b) ==
    LET ends == {e \in b..Len(s) :
                    Ch(s, e) = "(" /\ \A j \in b..(e - 1) : IsSpace(Ch(s, j))}
    IN  IF ends = {} THEN 0 ELSE Min(ends)

\* the pattern with literal text prefix and alternative m matches at position
\* k of s, letter case ignored (re.IGNORECASE)
PatternAt(prefix, m, s, k) ==
    /\ AtIgnoreCase(s, k, prefix)
    /\ AtIgnoreCase(s, k + Len(prefix), m)
    /\ OpenParenAfter(s, k + Len(prefix) + Len(m)) # 0

\* re.search(pattern, s, re.IGNORECASE): the leftmost match, its group(1) the
\* text matched by the first alternative that matches there; None if no match
PatternSearch(prefix, s) ==
    LET hits == {k \in 1..Len(s) :
                    \E a \in 1..Len(HTTP_METHODS) : PatternAt(prefix, HTTP_METHODS[a], s, k)}
    IN  IF hits = {} THEN None
        ELSE LET k == Min(hits)
                 a == Min({b \in 1..Len(HTTP_METHODS) : PatternAt(prefix, HTTP_METHODS[b], s, k)})
                 g == k + Len(prefix)
             IN  [none |-> FALSE, start |-> k,
                  group1 |-> SubSeq(s, g, g + Len(HTTP_METHODS[a]) - 1)]

IsQuote(c) == c \in {"\"", "'"}

\* re.search(r'["\']([^"\']+)["\']', s): the leftmost quote character that is
\* followed by at least one non-quote character and, later, by a quote
\* character; group(1) is the text between the two
PathSearch(s) ==
    LET closes(k) == {e \in (k + 2)..Len(s) : IsQuote(Ch(s, e))}
        hits == {k \in 1..Len(s) :
                    /\ IsQuote(Ch(s, k))
                    /\ k + 1 <= Len(s)
                    /\ ~IsQuote(Ch(s, k + 1))
                    /\ closes(k) # {}}
    IN  IF hits = {} THEN None
        ELSE LET k == Min(hits)
             IN  [none |-> FALSE, start |-> k,
                  group1 |-> SubSeq(s, k + 1, Min(closes(k)) - 1)]

\* position of the first character at or after position b that is no
\* whitespace, or Len(s) + 1
SkipSpace(s, b) ==
    LET rest == {k \in b..Len(s) : ~IsSpace(Ch(s, k))}
    IN  IF rest = {} THEN Len(s) + 1 ELSE Min(rest)

\* def\s+(\w+) matches at position k of s
DefAt(s, k) ==
    /\ At(s, k, "def")
    /\ SkipSpace(s, k + 3) > k + 3
    /\ SkipSpace(s, k + 3) <= Len(s)
    /\ IsWord(Ch(s, SkipSpace(s, k + 3)))

\* the group (\w+) of a match of def\s+(\w+) at position k: the longest run
\* of word characters after the whitespace
DefName(s, k) ==
    LET b == SkipSpace(s, k + 3)
        stop == {e \in b..Len(s) : ~IsWord(Ch(s, e))}
    IN  SubSeq(s, b, IF stop = {} THEN Len(s) ELSE Min(stop) - 1)

\* async\s+def\s+(\w+) matches at position k of s
AsyncDefAt(s, k) ==
    /\ At(s, k, "async")
    /\ SkipSpace(s, k + 5) > k + 5
    /\ DefAt(s, SkipSpace(s, k + 5))

\* re.search(r'(?:async\s+)?def\s+(\w+)', s): the leftmost match
FuncSearch(s) ==
    LET hits == {k \in 1..Len(s) : AsyncDefAt(s, k) \/ DefAt(s, k)}
    IN  IF hits = {} THEN None
        ELSE LET k == Min(hits)
                 d == IF AsyncDefAt(s, k) THEN SkipSpace(s, k + 5) ELSE k
             IN  [none |-> FALSE, start |-> k, group1 |-> DefName(s, d)]

----------------------------------------------------------------------------
(* FastAPIChangeDetector: snippet extractor, function locator, detector.   *)

\* _get_full_function_code: lines[i:min(i + 20, len(lines))]
SNIPPET_LINES == 20

\* _find_function_definition: range(decorator_index + 1,
\*                                  min(decorator_index + 10, len(lines)))
SCAN_LIMIT == 10

\* the outcomes of open(...).read(): the text of the file, or an exception
\* with its message
ReadOk(text) == [ok |-> TRUE, content |-> text]
ReadError(reason) == [ok |-> FALSE, error |-> reason]

\* f"# Function {function_name} not found in current file"
NotFoundPlaceholder(function_name) ==
    "# Function " \o function_name \o " not found in current file"

\* f"# Error reading function: {e}"
ErrorPlaceholder(reason) == "# Error reading function: " \o reason

\* the test that ends a snippet: the stripped line starts a def, a class or
\* an @app. / @router. decorator
StopsSnippet(func_line) ==
    LET stripped == Strip(func_line)
    IN  \/ StartsWith(stripped, "def ")
        \/ StartsWith(stripped, "class ")
        \/ StartsWith(stripped, "@app.")
        \/ StartsWith(stripped, "@router.")

\* _get_full_function_code(file_path, function_name), given what reading the
\* file yields
GetFullFunctionCode(read, function_name) ==
    IF ~read.ok THEN ErrorPlaceholder(read.error)
    ELSE
        LET flines == Split(read.content)
            found == {k \in 1..Len(flines) :
                        Contains(flines[k], "def " \o function_name \o "(")}
        IN  IF found = {} THEN NotFoundPlaceholder(function_name)
            ELSE
                LET first == Min(found)
                    end_line == Min({first + SNIPPET_LINES - 1, Len(flines)})
                    function_lines == SubSeq(flines, first, end_line)
                    stops == {j \in 2..Len(function_lines) : StopsSnippet(function_lines[j])}
                    kept == IF stops = {} THEN function_lines
                            ELSE SubSeq(function_lines, 1, Min(stops) - 1)
                IN  Join(kept)

\* the line of the diff as the locator sees it: line.lstrip('+- ').strip()
LocatorClean(line) == Strip(LStrip(line, {"+", "-", " "}))

\* a scan window one line too long
ScanRangeMut(ls, d) == (d + 1)..Min({d + SCAN_LIMIT, Len(ls)})

\* the positions the locator visits after the decorator at position d
ScanRange(ls, d) == (d + 1)..Min({d + SCAN_LIMIT - 1, Len(ls)})

\* the locator stops at position k: the line is neither empty nor another
\* decorator, and the function pattern is found in it
IsFunctionLine(line) ==
    LET clean_line == LocatorClean(line)
    IN  /\ clean_line # ""
        /\ ~StartsWith(clean_line, "@")
        /\ ~FuncSearch(clean_line).none

\* a locator that lets a failed read of the file drop the record
FindFunctionDefinitionMut(ls, d, read) ==
    LET hits == {k \in ScanRange(ls, d) : IsFunctionLine(ls[k])}
    IN  IF hits = {} \/ ~read.ok THEN None
        ELSE LET k == Min(hits)
                 function_name == FuncSearch(LocatorClean(ls[k])).group1
             IN  [none |-> FALSE,
                  name |-> function_name,
                  code |-> GetFullFunctionCode(read, function_name),
                  line |-> k]

\* _find_function_definition(lines, decorator_index, file_path)
FindFunctionDefinition(ls, d, read) ==
    LET hits == {k \in ScanRange(ls, d) : IsFunctionLine(ls[k])}
    IN  IF hits = {} THEN None
        ELSE LET k == Min(hits)
                 function_name == FuncSearch(LocatorClean(ls[k])).group1
             IN  [none |-> FALSE,
                  name |-> function_name,
                  code |-> GetFullFunctionCode(read, function_name),
                  line |-> k]

\* the line as the detector sees it: line[1:].strip() (a slice of the empty
\* text is the empty text)
DetectorClean(line) == IF line = "" THEN "" ELSE Strip(Tail(line))

\* the first pattern of FASTAPI_PATTERNS found in the cleaned line, or 0
FirstPattern(clean_line) ==
    LET found == {p \in 1..Len(FASTAPI_PATTERNS) :
                    ~PatternSearch(FASTAPI_PATTERNS[p], clean_line).none}
    IN  IF found = {} THEN 0 ELSE Min(found)

\* a path that is left empty when no quoted text is found
PathOfMut(clean_line) ==
    LET path_match == PathSearch(clean_line)
    IN  IF path_match.none THEN "" ELSE path_match.group1

\* path_match.group(1) if path_match else 'unknown'
PathOf(clean_line) ==
    LET path_match == PathSearch(clean_line)
    IN  IF path_match.none THEN "unknown" ELSE path_match.group1

\* a method taken as written in the source line
MethodOfMut(match) == match.group1

\* match.group(1).upper()
MethodOf(match) == Upper(match.group1)

\* a test that takes context lines as added too
IsAddedMut(line) == StartsWith(line, "+") \/ StartsWith(line, " ")

\* line.startswith('+')
IsAdded(line) == StartsWith(line, "+")

\* APIChange(...)
APIChange(method, path, function_info, fpath) ==
    [method |-> method,
     path |-> path,
     function_name |-> function_info.name,
     file_path |-> fpath,
     code_snippet |-> function_info.code,
     line_number |-> function_info.line,
     change_type |-> "new"]

\* the body of the loop of detect_api_changes for the added line at position
\* d: the list changes after it
ProcessLine(ls, d, fpath, read, chs) ==
    LET clean_line == DetectorClean(ls[d])
        p == FirstPattern(clean_line)
    IN  IF p = 0 THEN chs
        ELSE
            LET method == MethodOf(PatternSearch(FASTAPI_PATTERNS[p], clean_line))
                function_info == FindFunctionDefinition(ls, d, read)
            IN  IF function_info.none THEN chs
                ELSE Append(chs, APIChange(method, PathOf(clean_line), function_info, fpath))

\* detect_api_changes from position d on, the list so far being chs;
\* readAt[d] is what reading the file yields while line d is handled
RECURSIVE DetectFrom(_, _, _, _, _)
DetectFrom(ls, d, fpath, readAt, chs) ==
    IF d > Len(ls) THEN chs
    ELSE DetectFrom(ls, d + 1, fpath, readAt,
                    IF IsAdded(ls[d]) THEN ProcessLine(ls, d, fpath, readAt[d], chs)
                    ELSE chs)

\* detect_api_changes(diff_content, file_path)
DetectApiChanges(diff, fpath, readAt) == DetectFrom(Split(diff), 1, fpath, readAt, <<>>)


----------------------------------------------------------------------------
(* The inputs the model draws from.                                        *)

\* added, context and removed route decorators
DecoratorLines ==
    {"+@app.post(\"/api/x\")",
     "+@router.get('/r')",
     "+@app.get(PATH)",
     "+  @APP.Patch (\"/P\")",
     "+@router.put(\"\")",
     " @app.put(\"/c\")",
     "-@app.delete(\"/d\")"}

\* added, context and removed function definitions
DefLines ==
    {"+async def create_x():",
     "+def f(a):",
     " def ctx():",
     "-def old():"}

\* lines that are neither: a statement, an empty line, another decorator
FillerLines == {"+    x = 1", "", "+@cache"}

\* the sequences of length n over S
RECURSIVE SeqsOfLen(_, _)
SeqsOfLen(S, n) ==
    IF n = 0 THEN {<<>>}
    ELSE {Append(q, x) : q \in SeqsOfLen(S, n - 1), x \in S}

\* n copies of x
Repeat(x, n) == [k \in 1..n |-> x]

\* a decorator, n filler lines, possibly a second decorator, a definition
WindowDiffs ==
    {<<d>> \o Repeat(f, n) \o mid \o <<fn>> :
        d \in {"+@app.post(\"/api/x\")", " @app.put(\"/c\")"},
        f \in FillerLines, n \in 1..MaxFill,
        mid \in {<<>>, <<"+@router.get('/r')">>},
        fn \in {"+async def create_x():", "-def old():"}}

\* a decorator immediately followed by a definition
PairDiffs == {<<d, fn>> : d \in DecoratorLines, fn \in DefLines}

\* the lines of the diffs built freely
CoreLines ==
    {"+@app.post(\"/api/x\")", " @app.put(\"/c\")", "+async def create_x():",
     "-def old():", "+@cache", ""}

DiffContents ==
    {Join(ls) : ls \in UNION {SeqsOfLen(CoreLines, n) : n \in 0..MaxLen}
                       \cup PairDiffs \cup WindowDiffs}

FilePaths == {"services/main.py"}

\* contents of the file on disk: one that defines create_x and f, one that
\* defines neither
FileTexts ==
    {Join(<<"@app.post(\"/api/x\")", "async def create_x():", "    return 1", "",
            "def f(a):", "    return a", "">>),
     Join(<<"import os", "">>)}

\* messages of the exceptions open() and read() raise
ReadErrors == {"[Errno 2] No such file or directory"}

----------------------------------------------------------------------------
(* detect_api_changes as a state machine: one step per line of the diff.   *)

\* the variables of the functions that are not running
DetectIdle ==
    /\ diff_content = ""
    /\ lines = <<>>
    /\ i = 0
    /\ changes = <<>>
    /\ origin = <<>>

SnippetIdle ==
    /\ target_name = ""
    /\ snippet = ""

MainIdle ==
    /\ env = <<>>
    /\ exit_code = -1
    /\ changed_files = <<>>
    /\ fi = 0
    /\ all_api_changes = <<>>
    /\ api_docs = <<>>
    /\ changelog_docs = <<>>
    /\ ci = 0
    /\ attempt = 0
    /\ outcomes = <<>>
    /\ slept = <<>>
    /\ api_for = <<>>
    /\ log_for = <<>>
    /\ failed = {}
    /\ calls = <<>>
    /\ sent = <<>>
    /\ notify_log = <<>>

DetectInit ==
    /\ pc = "detect_start"
    /\ SnippetIdle
    /\ MainIdle
    /\ diff_content \in DiffContents
    /\ file_path \in FilePaths
    /\ file_text \in FileTexts
    /\ lines = <<>>
    /\ i = 0
    /\ changes = <<>>
    /\ origin = <<>>
    /\ reads = <<>>

\* changes = []; lines = diff_content.split('\n')
DetectSplit ==
    /\ pc = "detect_start"
    /\ lines' = Split(diff_content)
    /\ i' = 1
    /\ changes' = <<>>
    /\ origin' = <<>>
    /\ reads' = <<>>
    /\ pc' = "detect_loop"
    /\ UNCHANGED <<diff_content, file_path, file_text, snippetVars, mainVars>>

\* if not line.startswith('+'): continue
DetectSkipLine ==
    /\ pc = "detect_loop"
    /\ i <= Len(lines)
    /\ ~IsAdded(lines[i])
    /\ i' = i + 1
    /\ UNCHANGED <<pc, diff_content, file_path, file_text, lines, changes, origin, reads, snippetVars, mainVars>>

\* an added line: the pattern loop, the locator and the snippet extractor,
\* whose read of the file succeeds or raises
DetectAddedLine ==
    /\ pc = "detect_loop"
    /\ i <= Len(lines)
    /\ IsAdded(lines[i])
    /\ \E read \in {ReadOk(file_text)} \cup {ReadError(e) : e \in ReadErrors} :
          /\ changes' = ProcessLine(lines, i, file_path, read, changes)
          /\ origin' = IF Len(changes') > Len(changes) THEN Append(origin, i) ELSE origin
          /\ reads' = IF Len(changes') > Len(changes) THEN Append(reads, read) ELSE reads
    /\ i' = i + 1
    /\ UNCHANGED <<pc, diff_content, file_path, file_text, lines, snippetVars, mainVars>>

\* return changes
DetectReturn ==
    /\ pc = "detect_loop"
    /\ i > Len(lines)
    /\ pc' = "detect_done"
    /\ UNCHANGED <<detectVars, snippetVars, mainVars>>

DetectNext == DetectSplit \/ DetectSkipLine \/ DetectAddedLine \/ DetectReturn

SpecDetect == DetectInit /\ [][DetectNext]_vars

----------------------------------------------------------------------------
(* Properties of detect_api_changes, checked under SpecDetect.             *)

\* the records made for the decorator at position d
RecordsOf(d) == {k \in 1..Len(changes) : origin[k] = d}

\* the line is a route decorator written @app.<m>("<p>") or @router.<m>("<p>")
DecoratorForm(line, prefix, m, p) == line = "+" \o prefix \o m \o "(\"" \o p \o "\")"

\* the line is an added 'def f(' or 'async def f(' line
AddedDefOf(line, f) ==
    \/ StartsWith(line, "+def " \o f \o "(")
    \/ StartsWith(line, "+async def " \o f \o "(")

UpperName == [m \in {"get", "post", "put", "delete", "patch"} |->
                CASE m = "get" -> "GET"
                  [] m = "post" -> "POST"
                  [] m = "put" -> "PUT"
                  [] m = "delete" -> "DELETE"
                  [] m = "patch" -> "PATCH"]

\* the paths and the function names of the decorators and definitions of the
\* diffs
SomePaths == {"/api/x", ""}
SomeNames == {"create_x", "f", "ctx", "old"}

\* once the loop is past an added decorator @app.<m>("<p>") with p among
\* paths, followed at once by an added definition of f, there is exactly one
\* record for it, and it holds M, p, f, the file path and 'new'
OneRecordPerDecorator(paths) ==
    \A d \in 1..(Len(lines) - 1) :
        \A prefix \in {"@app.", "@router."}, m \in DOMAIN UpperName, p \in paths, f \in SomeNames :
            (/\ d < i
             /\ DecoratorForm(lines[d], prefix, m, p)
             /\ AddedDefOf(lines[d + 1], f))
            => /\ Cardinality(RecordsOf(d)) = 1
               /\ \A k \in RecordsOf(d) :
                    /\ changes[k].method = UpperName[m]
                    /\ changes[k].path = p
                    /\ changes[k].function_name = f
                    /\ changes[k].file_path = file_path
                    /\ changes[k].change_type = "new"

\* C1: an added decorator @app.<m>("<p>") or @router.<m>("<p>") followed at
\* once by an added 'def f(' or 'async def f(' line yields exactly one record,
\* with method M, path p, function name f, the file path passed in and change
\* type 'new', for every path p, the empty one included.
C1_OneRecordForAnyPath == OneRecordPerDecorator(SomePaths)

\* C1, for the paths that are not empty: the statement holds of them.
C1_OneRecordForNonEmptyPath == OneRecordPerDecorator(SomePaths \ {""})

\* a record made for +@app.post("/api/x") followed by +async def create_x():
C1_Witness ==
    /\ pc = "detect_done"
    /\ Len(lines) >= 2
    /\ lines[1] = "+@app.post(\"/api/x\")"
    /\ lines[2] = "+async def create_x():"
    /\ Len(changes) = 1
    /\ changes[1].path = "/api/x"

\* C2: records come from added lines only. A diff with no line beginning with
\* '+' gives no record; every record was made at a line beginning with '+',
\* each line makes at most one record, so a decorator on a context or removed
\* line never gives rise to one.
C2_OnlyAddedLines ==
    /\ (\A k \in 1..Len(lines) : ~StartsWith(lines[k], "+")) => changes = <<>>
    /\ \A k \in 1..Len(changes) :
          /\ origin[k] \in 1..Len(lines)
          /\ StartsWith(lines[origin[k]], "+")
          /\ \A j \in 1..Len(changes) : j < k => origin[j] < origin[k]

\* a context decorator followed by a definition, scanned to the end with no
\* record made
C2_Witness ==
    /\ pc = "detect_done"
    /\ Len(lines) = 2
    /\ lines[1] = " @app.put(\"/c\")"
    /\ lines[2] = "+def f(a):"
    /\ changes = <<>>

\* the line at position d is an added line in which a route decorator pattern
\* is found
AddedDecorator(d) == StartsWith(lines[d], "+") /\ FirstPattern(DetectorClean(lines[d])) # 0

\* a function definition is found among the 9 lines after position d
DefWithinNine(d) ==
    \E k \in (d + 1)..(d + 9) : k <= Len(lines) /\ Contains(lines[k], "def")

\* C3: the forward scan is bounded. A record's function line lies among the 9
\* lines after its decorator; an added decorator with no function definition
\* among the next 9 lines has no record, and the records of the other
\* decorators are the ones their own windows give.
C3_BoundedScan ==
    /\ \A k \in 1..Len(changes) :
          /\ changes[k].line_number > origin[k]
          /\ changes[k].line_number <= origin[k] + 9
    /\ \A d \in 1..Len(lines) :
          (d < i /\ AddedDecorator(d) /\ ~DefWithinNine(d)) => RecordsOf(d) = {}
    /\ \A d \in 1..Len(lines) :
          (d < i /\ AddedDecorator(d)
                 /\ \E k \in (d + 1)..(d + 9) : k <= Len(lines) /\ IsFunctionLine(lines[k]))
          => RecordsOf(d) # {}

\* a decorator, ten lines that are no definition, and a definition in the
\* 11th place: the decorator at position 1 is dropped, the one at position 11
\* keeps its record
C3_Witness ==
    /\ pc = "detect_done"
    /\ Len(lines) = 12
    /\ AddedDecorator(1)
    /\ \A k \in 2..10 : lines[k] = "+    x = 1"
    /\ AddedDecorator(11)
    /\ lines[12] = "+async def create_x():"
    /\ RecordsOf(1) = {}
    /\ Cardinality(RecordsOf(11)) = 1

\* the line holds no quote character
NoQuote(line) == \A k \in 1..Len(line) : Ch(line, k) \notin {"\"", "'"}

\* C8: an added decorator line that holds no quoted text, and for which the
\* locator finds a function, still gets its record, and the record's path is
\* 'unknown'.
C8_UnknownPath ==
    /\ \A k \in 1..Len(changes) : NoQuote(lines[origin[k]]) => changes[k].path = "unknown"
    /\ \A d \in 1..Len(lines) :
          (/\ d < i
           /\ AddedDecorator(d)
           /\ NoQuote(lines[d])
           /\ \E k \in (d + 1)..(d + 9) : k <= Len(lines) /\ IsFunctionLine(lines[k]))
          => \E k \in RecordsOf(d) : changes[k].path = "unknown"

\* +@app.get(PATH) followed by a definition has its record
C8_Witness ==
    /\ pc = "detect_done"
    /\ lines = <<"+@app.get(PATH)", "+def f(a):">>
    /\ Len(changes) = 1
    /\ changes[1].path = "unknown"
    /\ changes[1].function_name = "f"

\* q is p, or p with elements appended
IsPrefix(p, q) == Len(p) <= Len(q) /\ \A k \in 1..Len(p) : q[k] = p[k]

\* every record has a method of the enumeration and change type 'new'
MethodsInEnum ==
    \A k \in 1..Len(changes) :
        /\ changes[k].method \in {"GET", "POST", "PUT", "DELETE", "PATCH"}
        /\ changes[k].change_type = "new"

\* C9: every record of the result list has its method among GET, POST, PUT,
\* DELETE, PATCH and change type 'new', and a record once appended is never
\* changed, merged or removed: the list only grows at its end.
C9_RecordsKept == [](MethodsInEnum) /\ [][IsPrefix(changes, changes')]_vars

\* a record whose method was written in mixed case in the diff
C9_Witness ==
    /\ pc = "detect_done"
    /\ \E k \in 1..Len(changes) :
          /\ lines[origin[k]] = "+  @APP.Patch (\"/P\")"
          /\ changes[k].method = "PATCH"

\* no line of the text holds 'def <function_name>('
NotInFile(text, function_name) ==
    \A k \in 1..Len(Split(text)) : ~Contains(Split(text)[k], "def " \o function_name \o "(")

\* C6: the snippet extractor never fails the record. When the file cannot be
\* read the record's snippet is the error placeholder with the reason, when
\* no line of the file holds 'def <function_name>(' it is the not-found
\* placeholder naming the function, and in both cases the record of a
\* decorator whose function the locator finds is still made.
C6_PlaceholderSnippets ==
    /\ \A k \in 1..Len(changes) :
          /\ ~reads[k].ok =>
                changes[k].code_snippet = "# Error reading function: " \o reads[k].error
          /\ (reads[k].ok /\ NotInFile(reads[k].content, changes[k].function_name)) =>
                changes[k].code_snippet =
                    "# Function " \o changes[k].function_name \o " not found in current file"
    /\ \A d \in 1..Len(lines) :
          (d < i /\ AddedDecorator(d)
                 /\ \E k \in (d + 1)..(d + 9) : k <= Len(lines) /\ IsFunctionLine(lines[k]))
          => Cardinality(RecordsOf(d)) = 1

\* two records of one run: one made while the file could not be read, one for
\* a function the file does not hold
C6_Witness ==
    /\ pc = "detect_done"
    /\ \E k \in 1..Len(changes) :
          /\ ~reads[k].ok
          /\ changes[k].code_snippet = "# Error reading function: [Errno 2] No such file or directory"
    /\ \E k \in 1..Len(changes) :
          /\ reads[k].ok
          /\ changes[k].function_name = "old"
          /\ changes[k].code_snippet = "# Function old not found in current file"

\* the locator passes over the line: it is empty once cleaned, or begins
\* with '@'
IsSkipped(line) ==
    LET clean_line == LocatorClean(line)
    IN  clean_line = "" \/ StartsWith(clean_line, "@")

\* the positions after d of the lines that are neither blank nor decorators
Significant(d) == {k \in (d + 1)..Len(lines) : ~IsSkipped(lines[k])}

\* a function definition is among the first 9 lines after d that are neither
\* blank nor decorators
FoundAmongSignificant(d) ==
    \E k \in Significant(d) :
        /\ Cardinality({j \in Significant(d) : j <= k}) <= 9
        /\ IsFunctionLine(lines[k])

\* C11: blank lines and lines beginning with '@' between the route decorator
\* and the function definition take no slot of the scan window. Whether an
\* added decorator gets its record depends only on the lines after it that
\* are neither blank nor decorators: it has one exactly when a function
\* definition is among the first 9 of them, however many blank or decorator
\* lines stand in between.
C11_SkippedLinesTakeNoSlot ==
    \A d \in 1..Len(lines) :
        (d < i /\ AddedDecorator(d)) => (RecordsOf(d) # {} <=> FoundAmongSignificant(d))

\* C13: the function of a record is never taken from a removed line. The
\* line of the diff at the record's line_number does not begin with '-', and
\* it lies after the decorator line and at most 9 lines after it.
C13_HandlerNotFromRemovedLine ==
    \A k \in 1..Len(changes) :
        /\ changes[k].line_number > origin[k]
        /\ changes[k].line_number <= origin[k] + 9
        /\ changes[k].line_number <= Len(lines)
        /\ ~StartsWith(lines[changes[k].line_number], "-")

----------------------------------------------------------------------------
(* _get_full_function_code on its own: one call on a file of the disk.     *)

SnippetLines ==
    {"def create_x():", "    async def create_x(a, b):", "    return 1", "",
     "def create_y():", "async def create_y():", "class A:", "  @router.post('/z')"}

\* a definition of create_x, n body lines, and the line after the body
LongFiles ==
    {<<"def create_x():">> \o Repeat("    y = 1", n) \o <<after>> :
        n \in 0..MaxBody,
        after \in {"def create_y():", "async def create_y():", "@app.get(\"/y\")",
                   "class A:", "    return y"}}

SnippetFiles ==
    {Join(ls) : ls \in UNION {SeqsOfLen(SnippetLines, n) : n \in 0..MaxFileLen} \cup LongFiles}

SnippetInit ==
    /\ pc = "snippet_start"
    /\ DetectIdle
    /\ MainIdle
    /\ file_path \in FilePaths
    /\ file_text \in SnippetFiles
    /\ reads = <<>>
    /\ target_name \in {"create_x", "create_y"}
    /\ snippet = ""

\* the file is read and the function looked up in it
SnippetFromFile ==
    /\ pc = "snippet_start"
    /\ reads' = <<ReadOk(file_text)>>
    /\ snippet' = GetFullFunctionCode(ReadOk(file_text), target_name)
    /\ pc' = "snippet_done"
    /\ UNCHANGED <<diff_content, file_path, file_text, lines, i, changes, origin, target_name, mainVars>>

\* open() or read() raises
SnippetReadFails ==
    /\ pc = "snippet_start"
    /\ \E e \in ReadErrors :
          /\ reads' = <<ReadError(e)>>
          /\ snippet' = GetFullFunctionCode(ReadError(e), target_name)
    /\ pc' = "snippet_done"
    /\ UNCHANGED <<diff_content, file_path, file_text, lines, i, changes, origin, target_name, mainVars>>

SnippetNext == SnippetFromFile \/ SnippetReadFails

SpecSnippet == SnippetInit /\ [][SnippetNext]_vars

\* the lines of the file and of the snippet returned
FileLinesNow == Split(file_text)
SnippetLinesNow == Split(snippet)

\* positions of the lines of the file that hold 'def <function_name>('
FoundAt == {k \in 1..Len(FileLinesNow) : Contains(FileLinesNow[k], "def " \o target_name \o "(")}

\* the call has returned the lines of a function found in the file
SnippetFound == pc = "snippet_done" /\ reads[1].ok /\ FoundAt # {}

\* the stripped line begins a function definition
BeginsFunction(line) ==
    StartsWith(Strip(line), "def ") \/ StartsWith(Strip(line), "async def ")

\* the stripped line begins a class definition or an @app. / @router. decorator
BeginsClassOrRoute(line) ==
    \/ StartsWith(Strip(line), "class ")
    \/ StartsWith(Strip(line), "@app.")
    \/ StartsWith(Strip(line), "@router.")

\* the snippet is the n lines of the file from the first line that holds
\* 'def <function_name>(' on, with n at most 20
SnippetIsWindow ==
    SnippetFound =>
        /\ Len(SnippetLinesNow) >= 1
        /\ Len(SnippetLinesNow) <= 20
        /\ Min(FoundAt) + Len(SnippetLinesNow) - 1 <= Len(FileLinesNow)
        /\ SnippetLinesNow =
              SubSeq(FileLinesNow, Min(FoundAt), Min(FoundAt) + Len(SnippetLinesNow) - 1)

\* C7: a found function's snippet starts at the first line holding
\* 'def <function_name>(', has at most 20 lines, and is cut before the first
\* later line that begins a function definition, a class definition or an
\* @app. / @router. decorator, so that no line after its first is the
\* declaration of a following function, a class or a route.
C7_SnippetStopsAtNextDeclaration ==
    /\ SnippetIsWindow
    /\ SnippetFound =>
          \A j \in 2..Len(SnippetLinesNow) :
              ~BeginsFunction(SnippetLinesNow[j]) /\ ~BeginsClassOrRoute(SnippetLinesNow[j])

\* C7, as the code has it: the snippet is cut before the first later line
\* that begins with 'def ', 'class ', '@app.' or '@router.', and at 20 lines.
C7_SnippetStopsAtPlainDef ==
    /\ SnippetIsWindow
    /\ SnippetFound =>
          /\ \A j \in 2..Len(SnippetLinesNow) :
                ~StartsWith(Strip(SnippetLinesNow[j]), "def ")
                /\ ~BeginsClassOrRoute(SnippetLinesNow[j])
          /\ LET next == Min(FoundAt) + Len(SnippetLinesNow)
             IN  (Len(SnippetLinesNow) < 20 /\ next <= Len(FileLinesNow))
                 => \/ StartsWith(Strip(FileLinesNow[next]), "def ")
                    \/ BeginsClassOrRoute(FileLinesNow[next])

\* 25 body lines after def create_x(): and then def create_y(): the snippet
\* has 20 lines and the create_y line is not among them
C7_Witness ==
    /\ SnippetFound
    /\ target_name = "create_x"
    /\ Len(FileLinesNow) = 27
    /\ FileLinesNow[27] = "def create_y():"
    /\ Len(SnippetLinesNow) = 20
    /\ \A j \in 1..20 : ~Contains(SnippetLinesNow[j], "create_y")

----------------------------------------------------------------------------
(* GeminiDocumentationGenerator and GmailNotifier.                         *)

\* generate_api_documentation: max_retries = 3
MAX_RETRIES == 3

\* _generate_fallback_docs(api_change); the backquotes of the template are
\* written as apostrophes
FallbackDocs(api_change) ==
    "\n## " \o api_change.method \o " " \o api_change.path
    \o "\n\n**Description:** " \o Title(Replace(api_change.function_name, "_", " "))
    \o "\n\n**Function:** '" \o api_change.function_name \o "'"
    \o "\n\n**Request/Response:** See code implementation for details."
    \o "\n\n**Notes:** This endpoint was automatically detected. "
    \o "Please review and update documentation as needed.\n"

\* _generate_fallback_changelog(api_change), today being the date of the
\* call; the emoji of the heading is left out, backquotes are apostrophes
FallbackChangelog(api_change, today) ==
    "\n### " \o today
    \o "\n\n#### New Features"
    \o "\n- Added '" \o api_change.method \o " " \o api_change.path \o "' endpoint"
    \o "\n- Function: '" \o api_change.function_name \o "'\n"

\* what one call of model.generate_content(...) followed by response.text
\* meets: a text, possibly empty, or an exception
GotText(t) == [kind |-> "text", text |-> t]
GotError == [kind |-> "error", text |-> ""]

\* if response.text:
HasText(out) == out.kind = "text" /\ out.text # ""

\* the loop of generate_api_documentation goes on after the attempt
RetriesLeft(n) == n + 1 < MAX_RETRIES

\* the wait after a failed attempt: time.sleep(2 ** attempt) if
\* attempt < max_retries - 1, after an exception only
SleepAfter(out, n) ==
    IF out.kind = "error" /\ n < MAX_RETRIES - 1 THEN <<2 ^ n>> ELSE <<>>

\* _create_email_content: the changes listed, the API reference sections of
\* zip(api_changes, api_docs), the changelog entries
EmailContent(api_changes, docs, logs) ==
    [detected |-> [k \in 1..Len(api_changes) |->
                      <<api_changes[k].method, api_changes[k].path,
                        api_changes[k].function_name, api_changes[k].file_path>>],
     api_reference |-> [k \in 1..Min({Len(api_changes), Len(docs)}) |-> docs[k]],
     changelog |-> logs]

\* the message send_documentation_notification builds
EmailMessage(user, recipient, api_changes, docs, logs) ==
    [from |-> user, to |-> recipient, endpoints |-> Len(api_changes),
     content |-> EmailContent(api_changes, docs, logs)]

----------------------------------------------------------------------------
(* main() as a state machine.                                              *)

EnvNames == {"GEMINI_API_KEY", "GMAIL_USER", "GMAIL_PASSWORD", "NOTIFICATION_EMAIL"}

\* a variable of the environment: unset, or set to a text
Unset == [set |-> FALSE, value |-> ""]
SetTo(v) == [set |-> TRUE, value |-> v]

\* a value that takes the emptiness test alone for the check
IsMissingMut(v) == ~v.set

\* 'if not <value>' of a value os.getenv returned
IsMissing(v) == ~v.set \/ v.value = ""

\* python_files of get_changed_python_files, given git's output
PythonFiles(stdout) ==
    LET names == Split(Strip(stdout))
        keep(f) == EndsWith(f, ".py") /\ ~Contains(Lower(f), "test") /\ f # ""
    IN  SelectSeq(names, keep)

\* what subprocess.run(['git', ...]) meets: an exception, or a return code
\* and an output
GitRaises == [raised |-> TRUE, returncode |-> 0, stdout |-> ""]
GitExit(code, out) == [raised |-> FALSE, returncode |-> code, stdout |-> out]

\* get_changed_python_files()
GetChangedPythonFiles(git) ==
    IF git.raised \/ git.returncode # 0 THEN <<>> ELSE PythonFiles(git.stdout)

\* get_file_diff(file_path)
GetFileDiff(git) == IF git.raised THEN "" ELSE git.stdout

\* main leaves its loop over all_api_changes after the first record
LoopDoneMut(k, all) == k > 1

\* the loop over all_api_changes has handled every record
LoopDone(k, all) == k > Len(all)

\* outputs of git diff --name-only
NameLists ==
    {"", "README.md\n", "services/main.py\n",
     "services/main.py\ntests/test_api.py\nREADME.md\nservices/routes.py\n"}

\* outputs of git diff for a file
MainDiffs ==
    {"",
     "+@app.post(\"/api/x\")\n+async def create_x():\n",
     " @app.put(\"/c\")\n def ctx():\n"}

\* the content of every changed file on disk
MainFileText ==
    Join(<<"@app.post(\"/api/x\")", "async def create_x():", "    return 1", "",
           "def f(a):", "    return a", "">>)

\* the texts the model answers with
GenTexts == {"", " \n", " Docs\n"}

GenOutcomes == {GotText(t) : t \in GenTexts} \cup {GotError}

Dates == {"2025-01-15"}

NoCalls == [git |-> 0, detect |-> 0, generate |-> 0, deliver |-> 0]

Count(what) == [calls EXCEPT ![what] = @ + 1]

MainInit ==
    /\ pc = "main_start"
    /\ DetectIdle
    /\ SnippetIdle
    /\ file_path = ""
    /\ file_text = MainFileText
    /\ reads = <<>>
    /\ env \in [EnvNames -> {Unset, SetTo(""), SetTo("secret")}]
    /\ exit_code = -1
    /\ changed_files = <<>>
    /\ fi = 0
    /\ all_api_changes = <<>>
    /\ api_docs = <<>>
    /\ changelog_docs = <<>>
    /\ ci = 0
    /\ attempt = 0
    /\ outcomes = <<>>
    /\ slept = <<>>
    /\ api_for = <<>>
    /\ log_for = <<>>
    /\ failed = {}
    /\ calls = NoCalls
    /\ sent = <<>>
    /\ notify_log = <<>>

\* a variable is missing: return 1
MainMissingConfig ==
    /\ pc = "main_start"
    /\ \E n \in EnvNames : IsMissing(env[n])
    /\ exit_code' = 1
    /\ pc' = "returned"
    /\ UNCHANGED <<detectVars, snippetVars, env, changed_files, fi, all_api_changes, api_docs,
                   changelog_docs, ci, attempt, outcomes, slept, api_for, log_for, failed,
                   calls, sent, notify_log>>

\* the components are made and get_changed_python_files() is called; with
\* no changed file main returns 0
MainChangedFiles ==
    /\ pc = "main_start"
    /\ \A n \in EnvNames : ~IsMissing(env[n])
    /\ \E git \in {GitRaises} \cup {GitExit(c, out) : c \in {0, 128}, out \in NameLists} :
          /\ changed_files' = GetChangedPythonFiles(git)
          /\ failed' = IF git.raised \/ git.returncode # 0 THEN failed \cup {"git"} ELSE failed
    /\ calls' = Count("git")
    /\ fi' = 1
    /\ IF changed_files' = <<>>
       THEN exit_code' = 0 /\ pc' = "returned"
       ELSE exit_code' = exit_code /\ pc' = "main_analyze"
    /\ UNCHANGED <<detectVars, snippetVars, env, all_api_changes, api_docs, changelog_docs, ci,
                   attempt, outcomes, slept, api_for, log_for, sent, notify_log>>

\* one turn of the loop over changed_files: get_file_diff and, if the diff
\* is not empty, detect_api_changes, whose reads of the file succeed or raise
MainAnalyzeFile ==
    /\ pc = "main_analyze"
    /\ fi <= Len(changed_files)
    /\ \E git \in {GitRaises} \cup {GitExit(0, out) : out \in MainDiffs} :
          LET diff == GetFileDiff(git)
              positions == 1..Len(Split(diff))
          IN  \E readAt \in [positions -> {ReadOk(file_text)} \cup {ReadError(e) : e \in ReadErrors}] :
                LET api_changes == IF diff # ""
                                   THEN DetectApiChanges(diff, changed_files[fi], readAt)
                                   ELSE <<>>
                    unread == \E k \in 1..Len(api_changes) :
                                 StartsWith(api_changes[k].code_snippet, "# Error reading function: ")
                IN  /\ all_api_changes' = all_api_changes \o api_changes
                    /\ failed' = failed \cup (IF git.raised THEN {"diff"} ELSE {})
                                        \cup (IF unread THEN {"read"} ELSE {})
                    /\ calls' = [calls EXCEPT !.git = @ + 1,
                                              !.detect = IF diff # "" THEN @ + 1 ELSE @]
    /\ fi' = fi + 1
    /\ UNCHANGED <<pc, detectVars, snippetVars, env, exit_code, changed_files, api_docs,
                   changelog_docs, ci, attempt, outcomes, slept, api_for, log_for, sent,
                   notify_log>>

\* the loop over changed_files is over and no record was found: return 0
MainNoChanges ==
    /\ pc = "main_analyze"
    /\ fi > Len(changed_files)
    /\ all_api_changes = <<>>
    /\ exit_code' = 0
    /\ pc' = "returned"
    /\ UNCHANGED <<detectVars, snippetVars, env, changed_files, fi, all_api_changes, api_docs,
                   changelog_docs, ci, attempt, outcomes, slept, api_for, log_for, failed,
                   calls, sent, notify_log>>

\* the loop over changed_files is over: the loop over the records starts with
\* the first call of generate_api_documentation
MainStartGeneration ==
    /\ pc = "main_analyze"
    /\ fi > Len(changed_files)
    /\ all_api_changes # <<>>
    /\ api_docs' = <<>>
    /\ changelog_docs' = <<>>
    /\ ci' = 1
    /\ attempt' = 0
    /\ outcomes' = <<>>
    /\ slept' = <<>>
    /\ pc' = "generate_api"
    /\ UNCHANGED <<detectVars, snippetVars, env, exit_code, changed_files, fi, all_api_changes,
                   api_for, log_for, failed, calls, sent, notify_log>>

\* generate_api_documentation: an attempt yields a text that is not empty,
\* which is returned stripped
GenerateApiText ==
    /\ pc = "generate_api"
    /\ \E out \in GenOutcomes :
          /\ HasText(out)
          /\ outcomes' = Append(outcomes, out)
          /\ api_docs' = Append(api_docs, Strip(out.text))
    /\ api_for' = Append(api_for, all_api_changes[ci])
    /\ calls' = Count("generate")
    /\ pc' = "generate_changelog"
    /\ UNCHANGED <<detectVars, snippetVars, env, exit_code, changed_files, fi, all_api_changes,
                   changelog_docs, ci, attempt, slept, log_for, failed, sent, notify_log>>

\* generate_api_documentation: an attempt yields an empty text or raises;
\* the loop goes on, or is over and the fallback is returned
GenerateApiFails ==
    /\ pc = "generate_api"
    /\ \E out \in GenOutcomes :
          /\ ~HasText(out)
          /\ outcomes' = Append(outcomes, out)
          /\ slept' = slept \o SleepAfter(out, attempt)
          /\ failed' = IF out.kind = "error" THEN failed \cup {"generate"} ELSE failed
    /\ calls' = Count("generate")
    /\ IF RetriesLeft(attempt)
       THEN /\ attempt' = attempt + 1
            /\ UNCHANGED <<pc, api_docs, api_for>>
       ELSE /\ api_docs' = Append(api_docs, FallbackDocs(all_api_changes[ci]))
            /\ api_for' = Append(api_for, all_api_changes[ci])
            /\ pc' = "generate_changelog"
            /\ UNCHANGED attempt
    /\ UNCHANGED <<detectVars, snippetVars, env, exit_code, changed_files, fi, all_api_changes,
                   changelog_docs, ci, log_for, sent, notify_log>>

\* generate_changelog_entry: one attempt, the fallback if it yields an empty
\* text or raises; then the next record, or the end of the loop
GenerateChangelog ==
    /\ pc = "generate_changelog"
    /\ \E out \in GenOutcomes, today \in Dates :
          /\ changelog_docs' =
                Append(changelog_docs,
                       IF HasText(out) THEN Strip(out.text)
                       ELSE FallbackChangelog(all_api_changes[ci], today))
          /\ failed' = IF out.kind = "error" THEN failed \cup {"generate"} ELSE failed
    /\ log_for' = Append(log_for, all_api_changes[ci])
    /\ calls' = Count("generate")
    /\ ci' = ci + 1
    /\ IF LoopDone(ci', all_api_changes)
       THEN pc' = "notify" /\ UNCHANGED <<attempt, outcomes, slept>>
       ELSE pc' = "generate_api" /\ attempt' = 0 /\ outcomes' = <<>> /\ slept' = <<>>
    /\ UNCHANGED <<detectVars, snippetVars, env, exit_code, changed_files, fi, all_api_changes,
                   api_docs, api_for, sent, notify_log>>

\* send_documentation_notification: with an empty list it returns at once;
\* else the message is built and handed to SMTP, which delivers it or
\* raises. Then main returns 0.
Notify ==
    /\ pc = "notify"
    /\ IF all_api_changes = <<>>
       THEN /\ notify_log' = Append(notify_log, "No API changes to notify about")
            /\ UNCHANGED <<sent, calls, failed>>
       ELSE /\ sent' = Append(sent,
                              [api_changes |-> all_api_changes,
                               api_docs |-> api_docs,
                               changelog_docs |-> changelog_docs,
                               recipient |-> env["NOTIFICATION_EMAIL"].value,
                               message |-> EmailMessage(env["GMAIL_USER"].value,
                                                        env["NOTIFICATION_EMAIL"].value,
                                                        all_api_changes, api_docs,
                                                        changelog_docs)])
            /\ calls' = Count("deliver")
            /\ \E delivered \in BOOLEAN :
                  /\ notify_log' = Append(notify_log,
                                          IF delivered THEN "Documentation notification sent"
                                          ELSE "Error sending email")
                  /\ failed' = IF delivered THEN failed ELSE failed \cup {"smtp"}
    /\ exit_code' = 0
    /\ pc' = "returned"
    /\ UNCHANGED <<detectVars, snippetVars, env, changed_files, fi, all_api_changes, api_docs,
                   changelog_docs, ci, attempt, outcomes, slept, api_for, log_for>>

MainNext ==
    \/ MainMissingConfig
    \/ MainChangedFiles
    \/ MainAnalyzeFile
    \/ MainNoChanges
    \/ MainStartGeneration
    \/ GenerateApiText
    \/ GenerateApiFails
    \/ GenerateChangelog
    \/ Notify

SpecMain == MainInit /\ [][MainNext]_vars

----------------------------------------------------------------------------
(* Properties of main, the generator and the notifier, under SpecMain.     *)

\* generate_api_documentation has just returned to main
ApiCallReturned == pc = "generate_changelog"

\* the text it returned
ApiResult == api_docs[Len(api_docs)]

\* attempt k of the call yielded a text that is not empty
YieldedText(k) == outcomes[k].kind = "text" /\ outcomes[k].text # ""

\* the model is called at most 3 times per record; the call ends with the
\* first attempt that yields a text, whose text (stripped) is returned; the
\* fallback template is returned exactly when 3 attempts raised or were empty
RetryThenFallback ==
    /\ Len(outcomes) <= 3
    /\ pc = "generate_api" => Len(outcomes) < 3 /\ \A k \in 1..Len(outcomes) : ~YieldedText(k)
    /\ ApiCallReturned =>
          /\ Len(outcomes) >= 1
          /\ \A k \in 1..(Len(outcomes) - 1) : ~YieldedText(k)
          /\ YieldedText(Len(outcomes)) => ApiResult = Strip(outcomes[Len(outcomes)].text)
          /\ ApiResult = FallbackDocs(all_api_changes[ci])
                <=> (Len(outcomes) = 3 /\ \A k \in 1..3 : ~YieldedText(k))

\* C4: generate_api_documentation calls the model at most 3 times per record,
\* returns the text of the first attempt that yields one and stops there,
\* returns the fallback template exactly when all 3 attempts raised or were
\* empty, and never returns an empty text.
C4_BoundedRetryNeverEmpty ==
    /\ RetryThenFallback
    /\ ApiCallReturned => ApiResult # ""

\* C4, without its last part: the retry loop and the fallback are as stated.
C4_BoundedRetry == RetryThenFallback

\* the fallback returned after three failed attempts
C4_Witness ==
    /\ ApiCallReturned
    /\ Len(outcomes) = 3
    /\ outcomes[1].kind = "error"
    /\ outcomes[2].kind = "text"
    /\ ApiResult = FallbackDocs(all_api_changes[ci])

\* one of the four variables is unset or empty
ConfigMissing == \E n \in EnvNames : ~env[n].set \/ env[n].value = ""

\* C5: missing configuration is the only fatal condition. With one of the
\* four variables unset or empty main returns 1 and nothing was queried,
\* detected, generated or delivered; with all four present every run goes on
\* to return 0, whatever failed on the way.
C5_OnlyConfigIsFatal ==
    /\ pc = "returned" => exit_code = (IF ConfigMissing THEN 1 ELSE 0)
    /\ ConfigMissing => calls = NoCalls /\ pc \in {"main_start", "returned"}
    /\ pc # "returned" => ENABLED MainNext

\* a run that met a failed diff, a failed read of the file, a failed
\* generation and a failed delivery, and returned 0
C5_Witness ==
    /\ pc = "returned"
    /\ exit_code = 0
    /\ {"diff", "read", "generate", "smtp"} \subseteq failed

\* C10: the notifier makes at most one delivery attempt, only with at least
\* one record and only after both drafts of every record were generated; it
\* receives the full record list and two draft lists of the same length and
\* in the same order; a failed delivery is logged, and main returns without
\* another attempt.
C10_OneDeliveryAfterAllDrafts ==
    /\ Len(sent) <= 1
    /\ calls.deliver = Len(sent)
    /\ \A k \in 1..Len(sent) :
          /\ sent[k].api_changes = all_api_changes
          /\ Len(sent[k].api_changes) >= 1
          /\ Len(sent[k].api_docs) = Len(sent[k].api_changes)
          /\ Len(sent[k].changelog_docs) = Len(sent[k].api_changes)
          /\ sent[k].api_docs = api_docs
          /\ sent[k].changelog_docs = changelog_docs
          /\ api_for = sent[k].api_changes
          /\ log_for = sent[k].api_changes
          /\ pc = "returned"
    /\ "smtp" \in failed => notify_log = <<"Error sending email">> /\ Len(sent) = 1

\* a failed delivery of the drafts of two records
C10_Witness ==
    /\ pc = "returned"
    /\ Len(sent) = 1
    /\ Len(sent[1].api_changes) = 2
    /\ Len(sent[1].api_docs) = 2
    /\ "smtp" \in failed

\* the attempts of the current call that raised or yielded an empty text
FailedAttempts == {k \in 1..Len(outcomes) : ~YieldedText(k)}

\* the attempts of the current call that raised
RaisedAttempts == {k \in 1..Len(outcomes) : outcomes[k].kind = "error"}

\* the seconds waited in the current call
RECURSIVE TotalOf(_)
TotalOf(q) == IF q = <<>> THEN 0 ELSE Head(q) + TotalOf(Tail(q))

\* C12: the retries of generate_api_documentation back off exponentially.
\* Every attempt but the third that failed, by raising or by yielding an
\* empty text, is followed by a wait of 2^k seconds, k its zero-based index
\* (1 second, then 2 seconds); nothing is waited after the third attempt, and
\* one call waits 3 seconds at most.
C12_BackoffAfterEveryFailure ==
    /\ Len(slept) = Cardinality({k \in FailedAttempts : k < 3})
    /\ \A j \in 1..Len(slept) : slept[j] = 2 ^ (j - 1)
    /\ TotalOf(slept) <= 3

\* C12, for the attempts that raised only: each of them but the third is
\* followed by a wait of 2^k seconds, k its zero-based index; nothing else
\* is waited, and one call waits 3 seconds at most.
C12_BackoffAfterErrors ==
    /\ Len(slept) = Cardinality({k \in RaisedAttempts : k < 3})
    /\ \A j \in 1..Len(slept) :
          \E k \in RaisedAttempts :
              /\ k < 3
              /\ Cardinality({r \in RaisedAttempts : r <= k}) = j
              /\ slept[j] = 2 ^ (k - 1)
    /\ TotalOf(slept) <= 3
====
